---- MODULE Spec2Model ----
(***************************************************************************)
(* Model of src/app.py: the Streamlit dashboard that reads a symbol list,  *)
(* calls get_financial_data once per symbol, collects the returned records *)
(* and shows two ranked views and a PDF report.                            *)
(*                                                                         *)
(* Numbers.  The program computes on IEEE doubles (numpy.float64 values    *)
(* read from pandas objects, and the Python float np.nan).  A number is    *)
(* modelled as a pair <<n, d>>: an exact fraction n/d in lowest terms with *)
(* d > 0, or <<1,0>> (+inf), <<-1,0>> (-inf), <<0,0>> (NaN).  Rounding and *)
(* the sign of zero are not modelled.  numpy division by zero yields       *)
(* +-inf or NaN (a RuntimeWarning, no exception).                          *)
(***************************************************************************)
EXTENDS Integers, Sequences, FiniteSets

VARIABLES pc, sheet, symbols, idx, results, log, call, ret, error, view, pdf

vars == <<pc, sheet, symbols, idx, results, log, call, ret, error, view, pdf>>

(***************************************************************************)
(* Bounds of the model.                                                    *)
(***************************************************************************)
MaxPeriods == 2     \* reporting periods in a statement: 0..MaxPeriods
MaxVaried  == 1     \* line items of one statement that differ from Baseline
MaxPrices  == 3     \* observations in a price series: 0..MaxPrices
MaxSymbols == 3     \* cells in the 'Symbol' column: 0..MaxSymbols

(***************************************************************************)
(* Floating-point values.                                                  *)
(***************************************************************************)
NaN  == <<0, 0>>
Num(k) == <<k, 1>>
Zero == Num(0)

Abs(k) == IF k < 0 THEN -k ELSE k
Sgn(k) == IF k < 0 THEN -1 ELSE IF k = 0 THEN 0 ELSE 1

RECURSIVE GCD(_, _)
GCD(a, b) == IF b = 0 THEN a ELSE GCD(b, a % b)

\* The fraction n/d (d >= 0) as a value: lowest terms, n/0 is +-inf or NaN.
Norm(n, d) ==
    IF d = 0 THEN <<Sgn(n), 0>>
    ELSE LET g == GCD(Abs(n), d) IN <<n \div g, d \div g>>

IsNaN(x)    == x = NaN
IsFinite(x) == x[2] # 0

FSub(a, b) ==
    IF a[2] = 0 /\ b[2] = 0
    THEN (IF IsNaN(a) \/ IsNaN(b) \/ a = b THEN NaN ELSE a)
    ELSE Norm(a[1] * b[2] - b[1] * a[2], a[2] * b[2])

FMul(a, b) == Norm(a[1] * b[1], a[2] * b[2])

\* A zero divisor counts as +0.
FDiv(a, b) ==
    LET s == IF b[1] < 0 THEN -1 ELSE 1
    IN  Norm(a[1] * b[2] * s, a[2] * Abs(b[1]))

\* a < b on doubles; every comparison with NaN is false.
FLess(a, b) ==
    IF IsNaN(a) \/ IsNaN(b) THEN FALSE
    ELSE IF a[2] = 0 /\ b[2] = 0 THEN a[1] < b[1]
    ELSE a[1] * b[2] < b[1] * a[2]

\* bool(x): 0.0 is falsy; NaN and the infinities are truthy.
Truthy(x) == x # Zero

Hundred == Num(100)

(***************************************************************************)
(* DataFrame column access: df.get(key, [np.nan])[i].  A statement is      *)
(* [n |-> rows, cols |-> [key |-> series of n values, most recent first]]. *)
(* An absent key yields the one-element list [np.nan].  Indexing past the  *)
(* end raises IndexError.  Python index i is TLA+ index i + 1.             *)
(***************************************************************************)
HasCol(df, key) == key \in DOMAIN df.cols

GetRaises(df, key, i) ==
    IF HasCol(df, key) THEN i >= Len(df.cols[key]) ELSE i >= 1

\* Meaningful only where GetRaises(df, key, i) is FALSE.
GetItem(df, key, i) ==
    IF GetRaises(df, key, i) THEN NaN
    ELSE IF HasCol(df, key) THEN df.cols[key][i + 1]
    ELSE NaN

\* len(df)
DfLen(df) == df.n

\* stock.info.get(key, np.nan)
InfoGet(info, key) == IF key \in DOMAIN info THEN info[key] ELSE NaN

(***************************************************************************)
(* What the market-data provider answers for one symbol: the call's input. *)
(*   fault   : the source line at which a provider access raises, 0: none  *)
(*             (17 yf.Ticker, 18 financials, 19 quarterly_financials,      *)
(*             20 balance_sheet, 21 cashflow, 64 info, 80 history)         *)
(*   income, balance, cashflow : the transposed statements                 *)
(*   info    : the quote dictionary                                        *)
(*   history : the 1-year price series, oldest first; age is the number of *)
(*             days between the observation and today                      *)
(***************************************************************************)
IncomeKeys == {"Total Revenue", "Cost Of Revenue", "Gross Profit",
               "Operating Income", "Net Income"}

BalanceKeys == {"Cash And Cash Equivalents", "Accounts Receivable", "Inventory",
                "Property, Plant and Equipment", "Goodwill", "Total Assets",
                "Total Liabilities Net Minority Interest",
                "Total Equity Gross Minority Interest",
                "Current Assets", "Current Liabilities"}

CashflowKeys == {"Operating Cash Flow", "Capital Expenditures"}

InfoKeys == {"trailingPE", "priceToBook", "dividendYield"}

\* price_history['Close'] as the sequence of its closes
Close(history) == [k \in 1..Len(history) |-> history[k].close]

(***************************************************************************)
(* Lines 73-77: one growth figure,                                         *)
(*   ((cur - df.get(key,[nan])[1]) / df.get(key,[nan])[1]) * 100           *)
(*       if len(df) > 1 else np.nan                                        *)
(* The condition is evaluated first; the prior value is unguarded.         *)
(***************************************************************************)
growth_guard_len_ge_1(df, key, cur) ==
    IF DfLen(df) > 0
    THEN [raises |-> GetRaises(df, key, 1),
          val |-> LET prev == GetItem(df, key, 1)
                  IN  FMul(FDiv(FSub(cur, prev), prev), Hundred)]
    ELSE [raises |-> FALSE, val |-> NaN]

growth(df, key, cur) ==
    IF DfLen(df) > 1
    THEN [raises |-> GetRaises(df, key, 1),
          val |-> LET prev == GetItem(df, key, 1)
                  IN  FMul(FDiv(FSub(cur, prev), prev), Hundred)]
    ELSE [raises |-> FALSE, val |-> NaN]

(***************************************************************************)
(* Lines 81-82: both price-performance figures are                         *)
(*   ((Close[-1] - Close[0]) / Close[0]) * 100                             *)
(* over the whole 1-year history.  Indexing an empty series raises.        *)
(***************************************************************************)
price_performance(history) ==
    IF Len(history) = 0 THEN [raises |-> TRUE, val |-> NaN]
    ELSE LET c == Close(history)
             first == c[1]
             last == c[Len(c)]
         IN  [raises |-> FALSE,
              val |-> FMul(FDiv(FSub(last, first), first), Hundred)]

(***************************************************************************)
(* Lines 25-82: the value every assignment of the try block computes, as   *)
(* if none raised.  get_financial_data keeps those assigned before the     *)
(* first line that raises.                                                 *)
(***************************************************************************)
Locals(inp) ==
    LET inc == inp.income
        bal == inp.balance
        cf  == inp.cashflow
        revenue == GetItem(inc, "Total Revenue", 0)
        cogs == GetItem(inc, "Cost Of Revenue", 0)
        gross_profit == GetItem(inc, "Gross Profit", 0)
        operating_income == GetItem(inc, "Operating Income", 0)
        net_income == GetItem(inc, "Net Income", 0)
        accounts_receivable == GetItem(bal, "Accounts Receivable", 0)
        inventory == GetItem(bal, "Inventory", 0)
        total_assets == GetItem(bal, "Total Assets", 0)
        total_liabilities == GetItem(bal, "Total Liabilities Net Minority Interest", 0)
        equity == GetItem(bal, "Total Equity Gross Minority Interest", 0)
        current_assets == GetItem(bal, "Current Assets", 0)
        current_liabilities == GetItem(bal, "Current Liabilities", 0)
        operating_cash_flow == GetItem(cf, "Operating Cash Flow", 0)
        capex == GetItem(cf, "Capital Expenditures", 0)
    IN
    [ revenue |-> revenue,
      cogs |-> cogs,
      gross_profit |-> gross_profit,
      operating_income |-> operating_income,
      net_income |-> net_income,
      cash_equivalents |-> GetItem(bal, "Cash And Cash Equivalents", 0),
      accounts_receivable |-> accounts_receivable,
      inventory |-> inventory,
      pp_and_e |-> GetItem(bal, "Property, Plant and Equipment", 0),
      goodwill |-> GetItem(bal, "Goodwill", 0),
      total_assets |-> total_assets,
      total_liabilities |-> total_liabilities,
      equity |-> equity,
      gross_profit_margin |->
          IF Truthy(revenue) THEN FMul(FDiv(gross_profit, revenue), Hundred) ELSE NaN,
      operating_profit_margin |->
          IF Truthy(revenue) THEN FMul(FDiv(operating_income, revenue), Hundred) ELSE NaN,
      net_profit_margin |->
          IF Truthy(revenue) THEN FMul(FDiv(net_income, revenue), Hundred) ELSE NaN,
      roe |-> IF Truthy(equity) THEN FMul(FDiv(net_income, equity), Hundred) ELSE NaN,
      roa |-> IF Truthy(total_assets)
              THEN FMul(FDiv(net_income, total_assets), Hundred) ELSE NaN,
      current_ratio |->
          IF Truthy(current_liabilities)
          THEN FDiv(current_assets, current_liabilities) ELSE NaN,
      quick_ratio |->
          IF Truthy(current_liabilities)
          THEN FDiv(FSub(current_assets, inventory), current_liabilities) ELSE NaN,
      debt_to_equity |->
          IF Truthy(equity) THEN FDiv(total_liabilities, equity) ELSE NaN,
      debt_to_assets |->
          IF Truthy(total_assets) THEN FDiv(total_liabilities, total_assets) ELSE NaN,
      asset_turnover |->
          IF Truthy(total_assets) THEN FDiv(revenue, total_assets) ELSE NaN,
      inventory_turnover |->
          IF Truthy(inventory) THEN FDiv(cogs, inventory) ELSE NaN,
      receivables_turnover |->
          IF Truthy(accounts_receivable)
          THEN FDiv(revenue, accounts_receivable) ELSE NaN,
      pe_ratio |-> InfoGet(inp.info, "trailingPE"),
      pb_ratio |-> InfoGet(inp.info, "priceToBook"),
      dividend_yield |-> InfoGet(inp.info, "dividendYield"),
      operating_cash_flow |-> operating_cash_flow,
      \* (ocf - capex) if (ocf and capex) else nan
      free_cash_flow |->
          IF Truthy(operating_cash_flow) /\ Truthy(capex)
          THEN FSub(operating_cash_flow, capex) ELSE NaN,
      revenue_growth |-> growth(inc, "Total Revenue", revenue).val,
      cogs_growth |-> growth(inc, "Cost Of Revenue", cogs).val,
      gross_profit_growth |-> growth(inc, "Gross Profit", gross_profit).val,
      operating_income_growth |->
          growth(inc, "Operating Income", operating_income).val,
      net_income_growth |-> growth(inc, "Net Income", net_income).val,
      price_performance_30d |-> price_performance(inp.history).val,
      price_performance_1y |-> price_performance(inp.history).val ]

\* The source line of each assignment.
LineOf ==
    [ revenue |-> 25, cogs |-> 26, gross_profit |-> 27, operating_income |-> 28,
      net_income |-> 29, cash_equivalents |-> 32, accounts_receivable |-> 33,
      inventory |-> 34, pp_and_e |-> 35, goodwill |-> 36, total_assets |-> 37,
      total_liabilities |-> 38, equity |-> 39, gross_profit_margin |-> 42,
      operating_profit_margin |-> 43, net_profit_margin |-> 44, roe |-> 45,
      roa |-> 46, current_ratio |-> 49, quick_ratio |-> 51, debt_to_equity |-> 55,
      debt_to_assets |-> 56, asset_turnover |-> 59, inventory_turnover |-> 60,
      receivables_turnover |-> 61, pe_ratio |-> 64, pb_ratio |-> 65,
      dividend_yield |-> 66, operating_cash_flow |-> 69, free_cash_flow |-> 70,
      revenue_growth |-> 73, cogs_growth |-> 74, gross_profit_growth |-> 75,
      operating_income_growth |-> 76, net_income_growth |-> 77,
      price_performance_30d |-> 81, price_performance_1y |-> 82 ]

LocalNames == DOMAIN LineOf

\* The statement on line L of the try block raises (given that it is reached).
LineRaises(inp, L) ==
    LET inc == inp.income
        bal == inp.balance
        cf  == inp.cashflow
    IN
    CASE L = 25 -> GetRaises(inc, "Total Revenue", 0)
      [] L = 26 -> GetRaises(inc, "Cost Of Revenue", 0)
      [] L = 27 -> GetRaises(inc, "Gross Profit", 0)
      [] L = 28 -> GetRaises(inc, "Operating Income", 0)
      [] L = 29 -> GetRaises(inc, "Net Income", 0)
      [] L = 32 -> GetRaises(bal, "Cash And Cash Equivalents", 0)
      [] L = 33 -> GetRaises(bal, "Accounts Receivable", 0)
      [] L = 34 -> GetRaises(bal, "Inventory", 0)
      [] L = 35 -> GetRaises(bal, "Property, Plant and Equipment", 0)
      [] L = 36 -> GetRaises(bal, "Goodwill", 0)
      [] L = 37 -> GetRaises(bal, "Total Assets", 0)
      [] L = 38 -> GetRaises(bal, "Total Liabilities Net Minority Interest", 0)
      [] L = 39 -> GetRaises(bal, "Total Equity Gross Minority Interest", 0)
      \* 49-52: the condition reads Current Liabilities, then the quotient
      \* reads Current Assets when the condition is truthy
      [] L \in {49, 51} ->
            \/ GetRaises(bal, "Current Liabilities", 0)
            \/ /\ Truthy(GetItem(bal, "Current Liabilities", 0))
               /\ GetRaises(bal, "Current Assets", 0)
      [] L = 64 -> inp.fault = 64
      [] L = 69 -> GetRaises(cf, "Operating Cash Flow", 0)
      \* 70: `ocf and cashflow.get(...)[0]` reads capex only when ocf is truthy
      [] L = 70 -> /\ Truthy(GetItem(cf, "Operating Cash Flow", 0))
                   /\ GetRaises(cf, "Capital Expenditures", 0)
      [] L = 73 -> growth(inc, "Total Revenue", GetItem(inc, "Total Revenue", 0)).raises
      [] L = 74 -> growth(inc, "Cost Of Revenue", GetItem(inc, "Cost Of Revenue", 0)).raises
      [] L = 75 -> growth(inc, "Gross Profit", GetItem(inc, "Gross Profit", 0)).raises
      [] L = 76 -> growth(inc, "Operating Income", GetItem(inc, "Operating Income", 0)).raises
      [] L = 77 -> growth(inc, "Net Income", GetItem(inc, "Net Income", 0)).raises
      [] L = 80 -> inp.fault = 80
      [] L = 81 -> price_performance(inp.history).raises
      [] L = 82 -> price_performance(inp.history).raises
      [] OTHER -> FALSE

\* The first line of the try block that raises; 0 when none does.
FaultLine(inp) ==
    LET bad == {L \in 25..82 : LineRaises(inp, L)}
    IN  IF bad = {} THEN 0
        ELSE CHOOSE L \in bad : \A M \in bad : L <= M

Headers == {"Symbol", "Revenue Growth", "Gross Profit Growth",
            "Operating Income Growth", "Net Income Growth",
            "30 Day Price Performance", "1 Year Price Performance"}

\* Lines 84-92: the returned dictionary.
Record(symbol, loc) ==
    [h \in Headers |->
        CASE h = "Symbol" -> symbol
          [] h = "Revenue Growth" -> loc.revenue_growth
          [] h = "Gross Profit Growth" -> loc.gross_profit_growth
          [] h = "Operating Income Growth" -> loc.operating_income_growth
          [] h = "Net Income Growth" -> loc.net_income_growth
          [] h = "30 Day Price Performance" -> loc.price_performance_30d
          [] h = "1 Year Price Performance" -> loc.price_performance_1y]

(***************************************************************************)
(* get_financial_data(symbol), lines 16-95.                                *)
(*   outcome "raised"   : lines 17-21 are outside the try; a provider      *)
(*                        fault there leaves the function as an exception  *)
(*   outcome "none"     : a line of the try block raised; the handler      *)
(*                        prints and returns None                          *)
(*   outcome "returned" : the dictionary of lines 84-92                    *)
(* line is the raising line (0: none), exc the exception, locals the       *)
(* variables assigned before it, rec the returned dictionary (<<>>: none). *)
(***************************************************************************)
get_financial_data(symbol, inp) ==
    IF inp.fault \in 17..21
    THEN [outcome |-> "raised", line |-> inp.fault, exc |-> "FetchError",
          locals |-> [x \in {} |-> NaN], rec |-> <<>>]
    ELSE LET fl  == FaultLine(inp)
             all == Locals(inp)
             loc == [x \in {y \in LocalNames : fl = 0 \/ LineOf[y] < fl} |-> all[x]]
         IN  IF fl = 0
             THEN [outcome |-> "returned", line |-> 0, exc |-> "none",
                   locals |-> loc, rec |-> <<Record(symbol, all)>>]
             ELSE [outcome |-> "none", line |-> fl,
                   exc |-> IF fl \in {64, 80} THEN "FetchError" ELSE "IndexError",
                   locals |-> loc, rec |-> <<>>]

(***************************************************************************)
(* pandas sort_values(by=..., ascending=...): a stable sort on the column, *)
(* NaN rows last (na_position='last') in their original order; .head(n)    *)
(* keeps the first n rows.                                                 *)
(***************************************************************************)
Before(a, b, ascending) ==
    IF IsNaN(a) THEN FALSE
    ELSE IF IsNaN(b) THEN TRUE
    ELSE IF ascending THEN FLess(a, b) ELSE FLess(b, a)

\* r goes in front of the first row it is strictly before
InsertRow(rows, r, by, ascending) ==
    LET ahead == {k \in 1..Len(rows) : Before(r[by], rows[k][by], ascending)}
        p == IF ahead = {} THEN Len(rows) + 1
             ELSE CHOOSE k \in ahead : \A j \in ahead : k <= j
    IN  SubSeq(rows, 1, p - 1) \o <<r>> \o SubSeq(rows, p, Len(rows))

RECURSIVE sort_values(_, _, _)
sort_values(rows, by, ascending) ==
    IF rows = <<>> THEN <<>>
    ELSE InsertRow(sort_values(SubSeq(rows, 1, Len(rows) - 1), by, ascending),
                   rows[Len(rows)], by, ascending)

head(rows, n) == SubSeq(rows, 1, IF Len(rows) < n THEN Len(rows) ELSE n)

TopN == 5

\* results_df.sort_values(by='Revenue Growth', ascending=False).head(5)
top_stocks_revenue_growth(rows) == head(sort_values(rows, "Revenue Growth", FALSE), TopN)

\* results_df.sort_values(by='30 Day Price Performance').head(5)
top_stocks_price_performance(rows) ==
    head(sort_values(rows, "30 Day Price Performance", TRUE), TopN)

\* Lines 155-158: the 'Symbol' column as a list, every cell kept.
get_stock_symbols(sh) == sh

(***************************************************************************)
(* Inputs.  A cell of the 'Symbol' column is a symbol or the float NaN     *)
(* pandas reads from an empty cell (BlankCell).                            *)
(***************************************************************************)
BlankCell == "nan"
SymbolCells == {"AAA", "BBB", BlankCell}

Sheets == UNION {[1..n -> SymbolCells] : n \in 0..MaxSymbols}

Values == {NaN, Num(-1), Num(0), Num(2)}

\* A line item of a statement: <<present, most recent value, prior value>>.
AbsentCell == <<FALSE, NaN, NaN>>
BaseCell == <<TRUE, Num(3), Num(2)>>
Cells2 == {AbsentCell} \cup {<<TRUE, a, b>> : a \in Values, b \in Values}
Cells1 == {AbsentCell} \cup {<<TRUE, a, a>> : a \in Values}

\* Periods older than the second are never read; they repeat the prior value.
Series(n, v0, v1) == [k \in 1..n |-> IF k = 1 THEN v0 ELSE v1]

Statement(keys, n, f) ==
    [n |-> n,
     cols |-> [k \in {x \in keys : f[x][1]} |-> Series(n, f[k][2], f[k][3])]]

\* The provider's empty DataFrame: no rows and no columns.
EmptyFrame == [n |-> 0, cols |-> <<>>]

\* The sets of line items that may differ from the base line item.
VariedSets(keys) == {E \in SUBSET keys : Cardinality(E) <= MaxVaried}

\* The statement of n periods whose line items in D are g's, the others base.
Varied(keys, n, D, g) ==
    Statement(keys, n, [k \in keys |-> IF k \in D THEN g[k] ELSE BaseCell])

BaseStatement(keys) == Statement(keys, 2, [k \in keys |-> BaseCell])

PriceAges == {300, 45, 30, 10, 0}
Closes == {NaN, Num(1), Num(2), Num(4)}

RECURSIVE Oldest(_)
\* the ages of A, oldest first
Oldest(A) ==
    IF A = {} THEN <<>>
    ELSE LET m == CHOOSE a \in A : \A b \in A : b <= a
         IN  <<m>> \o Oldest(A \ {m})

AgeSets == {B \in SUBSET PriceAges : Cardinality(B) <= MaxPrices}

History(A, c) == [k \in 1..Cardinality(A) |-> [age |-> Oldest(A)[k], close |-> c[k]]]

Infos == UNION {[K -> {NaN, Num(2)}] : K \in SUBSET InfoKeys}

FaultLines == {17, 18, 19, 20, 21, 64, 80}

Baseline ==
    [fault |-> 0,
     income |-> BaseStatement(IncomeKeys),
     balance |-> BaseStatement(BalanceKeys),
     cashflow |-> BaseStatement(CashflowKeys),
     info |-> [k \in InfoKeys |-> Num(2)],
     history |-> <<[age |-> 300, close |-> Num(1)], [age |-> 10, close |-> Num(2)],
                   [age |-> 0, close |-> Num(4)]>>]

IncomeWith(n, key, cell) ==
    Statement(IncomeKeys, n, [k \in IncomeKeys |-> IF k = key THEN cell ELSE BaseCell])

\* Provider answers used in a run of main: a few of each kind.
RunInputs ==
    {Baseline}
    \cup {[Baseline EXCEPT !.income = IncomeWith(2, "Total Revenue", c)] :
            c \in {<<TRUE, Num(2), Num(2)>>, <<TRUE, Num(0), Num(2)>>,
                   <<TRUE, Num(2), Num(0)>>, <<TRUE, NaN, Num(2)>>, AbsentCell}}
    \cup {[Baseline EXCEPT !.income = IncomeWith(1, "Total Revenue", BaseCell)]}
    \cup {[Baseline EXCEPT !.income = EmptyFrame, !.balance = EmptyFrame,
                           !.cashflow = EmptyFrame]}
    \cup {[Baseline EXCEPT !.history = <<>>]}
    \cup {[Baseline EXCEPT !.history = <<[age |-> 10, close |-> Num(4)],
                                         [age |-> 0, close |-> Num(2)]>>]}
    \cup {[Baseline EXCEPT !.fault = x] : x \in FaultLines}

(***************************************************************************)
(* State.                                                                  *)
(*   pc      : "idle" (page shown), "loop" (lines 176-179), "views"        *)
(*             (tables shown), "done" (report offered), "aborted" (an      *)
(*             exception left main); "call"/"called" in SpecCall           *)
(*   sheet   : the 'Symbol' column of the selected sheet                   *)
(*   symbols, idx, results : main's list, loop position and results        *)
(*   log     : per processed symbol, the outcome of its call and the       *)
(*             exception that ended it                                     *)
(*   call, ret : the last call of get_financial_data and what it gave      *)
(*   error   : the exception that left main ("none": none)                 *)
(*   view, pdf : the two ranked tables of main and of generate_pdf         *)
(***************************************************************************)
NoTables == [top_revenue |-> <<>>, top_price |-> <<>>]
NoCall == [outcome |-> "pending", line |-> 0, exc |-> "none",
           locals |-> <<>>, rec |-> <<>>]

Init ==
    /\ pc = "idle"
    /\ sheet \in Sheets
    /\ symbols = <<>>
    /\ idx = 0
    /\ results = <<>>
    /\ log = <<>>
    /\ call = [symbol |-> "", inp |-> Baseline]
    /\ ret = NoCall
    /\ error = "none"
    /\ view = NoTables
    /\ pdf = NoTables

\* Lines 171-173: the button is pressed, the symbols are read.
AnalyzeStocks ==
    /\ pc = "idle"
    /\ pc' = "loop"
    /\ symbols' = get_stock_symbols(sheet)
    /\ idx' = 1
    /\ results' = <<>>
    /\ UNCHANGED <<sheet, log, call, ret, error, view, pdf>>

\* Lines 176-179: one iteration of the loop.
ProcessSymbol ==
    /\ pc = "loop"
    /\ idx <= Len(symbols)
    /\ \E inp \in RunInputs :
         \E stock_data \in {get_financial_data(symbols[idx], inp)} :
         LET symbol == symbols[idx]
         IN  /\ call' = [symbol |-> symbol, inp |-> inp]
             /\ ret' = stock_data
             /\ log' = Append(log, [outcome |-> stock_data.outcome, exc |-> stock_data.exc])
             /\ IF stock_data.outcome = "raised"
                THEN /\ pc' = "aborted"
                     /\ error' = stock_data.exc
                     /\ UNCHANGED <<idx, results>>
                ELSE /\ results' = results \o stock_data.rec
                     /\ idx' = idx + 1
                     /\ UNCHANGED <<pc, error>>
    /\ UNCHANGED <<sheet, symbols, view, pdf>>

\* Lines 182-191: the DataFrame and the two tables.  A DataFrame built from
\* an empty list has no columns: sort_values raises KeyError.
ShowViews ==
    /\ pc = "loop"
    /\ idx > Len(symbols)
    /\ IF results = <<>>
       THEN /\ pc' = "aborted"
            /\ error' = "KeyError"
            /\ UNCHANGED view
       ELSE /\ pc' = "views"
            /\ view' = [top_revenue |-> top_stocks_revenue_growth(results),
                        top_price |-> top_stocks_price_performance(results)]
            /\ UNCHANGED error
    /\ UNCHANGED <<sheet, symbols, idx, results, log, call, ret, pdf>>

\* Lines 194-200 and 98-152: the rows generate_pdf draws, then the download
\* button.
generate_pdf ==
    /\ pc = "views"
    /\ pc' = "done"
    /\ pdf' = [top_revenue |-> top_stocks_revenue_growth(results),
               top_price |-> top_stocks_price_performance(results)]
    /\ UNCHANGED <<sheet, symbols, idx, results, log, call, ret, error, view>>

Next == AnalyzeStocks \/ ProcessSymbol \/ ShowViews \/ generate_pdf

Spec == Init /\ [][Next]_vars

(***************************************************************************)
(* get_financial_data on its own: one call per behaviour, its input        *)
(* Baseline with one part varied.                                          *)
(***************************************************************************)
CallOf(inp) == [symbol |-> "AAA", inp |-> inp]

InitCall ==
    /\ pc = "call"
    /\ sheet = <<"AAA">>
    /\ symbols = <<"AAA">>
    /\ idx = 1
    /\ results = <<>>
    /\ log = <<>>
    /\ \/ \E n \in 1..MaxPeriods, D \in VariedSets(IncomeKeys) : \E g \in [D -> Cells2] :
             call = CallOf([Baseline EXCEPT !.income = Varied(IncomeKeys, n, D, g)])
       \/ \E n \in 1..MaxPeriods, D \in VariedSets(BalanceKeys) : \E g \in [D -> Cells1] :
             call = CallOf([Baseline EXCEPT !.balance = Varied(BalanceKeys, n, D, g)])
       \/ \E n \in 1..MaxPeriods, D \in VariedSets(CashflowKeys) : \E g \in [D -> Cells1] :
             call = CallOf([Baseline EXCEPT !.cashflow = Varied(CashflowKeys, n, D, g)])
       \/ call = CallOf([Baseline EXCEPT !.income = EmptyFrame])
       \/ call = CallOf([Baseline EXCEPT !.balance = EmptyFrame])
       \/ call = CallOf([Baseline EXCEPT !.cashflow = EmptyFrame])
       \/ \E x \in Infos : call = CallOf([Baseline EXCEPT !.info = x])
       \/ \E A \in AgeSets : \E c \in [1..Cardinality(A) -> Closes] :
             call = CallOf([Baseline EXCEPT !.history = History(A, c)])
       \/ \E x \in FaultLines : call = CallOf([Baseline EXCEPT !.fault = x])
    /\ ret = NoCall
    /\ error = "none"
    /\ view = NoTables
    /\ pdf = NoTables

CallFn ==
    /\ pc = "call"
    /\ pc' = "called"
    /\ ret' = get_financial_data(call.symbol, call.inp)
    /\ UNCHANGED <<sheet, symbols, idx, results, log, call, error, view, pdf>>

NextCall == CallFn

SpecCall == InitCall /\ [][NextCall]_vars

(***************************************************************************)
(* Properties.                                                             *)
(***************************************************************************)
Called == ret.outcome # "pending"
Returned == ret.outcome = "returned"
CallInput == call.inp

\* The local variable was assigned by the last call.
Assigned(name) == Called /\ name \in DOMAIN ret.locals

\* The most recent value of a line item as the provider gave it: NaN when the
\* line item or the period is missing.
ItemAt(df, key, k) ==
    IF key \in DOMAIN df.cols /\ k <= Len(df.cols[key]) THEN df.cols[key][k] ELSE NaN

ZeroOrUnavailable(x) == IsNaN(x) \/ x = Zero

\* Each ratio of lines 42-61 with the line item that is its denominator.
RatioDenominator ==
    [ gross_profit_margin |-> <<"income", "Total Revenue">>,
      operating_profit_margin |-> <<"income", "Total Revenue">>,
      net_profit_margin |-> <<"income", "Total Revenue">>,
      roe |-> <<"balance", "Total Equity Gross Minority Interest">>,
      roa |-> <<"balance", "Total Assets">>,
      current_ratio |-> <<"balance", "Current Liabilities">>,
      quick_ratio |-> <<"balance", "Current Liabilities">>,
      debt_to_equity |-> <<"balance", "Total Equity Gross Minority Interest">>,
      debt_to_assets |-> <<"balance", "Total Assets">>,
      asset_turnover |-> <<"balance", "Total Assets">>,
      inventory_turnover |-> <<"balance", "Inventory">>,
      receivables_turnover |-> <<"balance", "Accounts Receivable">> ]

\* Each growth figure of lines 73-77 with its line item.
GrowthOf ==
    [ revenue_growth |-> "Total Revenue",
      cogs_growth |-> "Cost Of Revenue",
      gross_profit_growth |-> "Gross Profit",
      operating_income_growth |-> "Operating Income",
      net_income_growth |-> "Net Income" ]

\* The growth figures that are fields of the returned record.
GrowthHeader ==
    [ revenue_growth |-> "Revenue Growth",
      gross_profit_growth |-> "Gross Profit Growth",
      operating_income_growth |-> "Operating Income Growth",
      net_income_growth |-> "Net Income Growth" ]

\* The computation of the local neither raised nor gave anything but NaN.
IsUnavailable(name) ==
    /\ ret.line # LineOf[name]
    /\ Assigned(name) => IsNaN(ret.locals[name])

\* C1: whenever the denominator of a ratio (lines 42-61) or of a growth
\* figure (lines 73-77, the prior period's value) is zero or unavailable, the
\* result is unavailable: not infinite, and computing it raises no fault.
C1_DivisionPolicy ==
    (Called /\ CallInput.fault = 0) =>
        /\ \A r \in DOMAIN RatioDenominator :
             ZeroOrUnavailable(ItemAt(CallInput[RatioDenominator[r][1]], RatioDenominator[r][2], 1))
                => IsUnavailable(r)
        /\ \A g \in DOMAIN GrowthOf :
             ZeroOrUnavailable(ItemAt(CallInput.income, GrowthOf[g], 2)) => IsUnavailable(g)

AbsentKeys(df, keys) == keys \ DOMAIN df.cols

\* C2: with a canonical line item absent from its statement (and the provider
\* answering, the price series not empty), get_financial_data raises no fault
\* and returns a record, in which the growth of an absent line item is
\* unavailable.
C2_AbsentLineItemKeepsRecord ==
    (/\ Called
     /\ CallInput.fault = 0
     /\ CallInput.history # <<>>
     /\ \/ AbsentKeys(CallInput.income, IncomeKeys) # {}
        \/ AbsentKeys(CallInput.balance, BalanceKeys) # {}
        \/ AbsentKeys(CallInput.cashflow, CashflowKeys) # {})
    => /\ ret.line = 0
       /\ Returned
       /\ \A g \in DOMAIN GrowthHeader :
            GrowthOf[g] \in AbsentKeys(CallInput.income, IncomeKeys)
                => IsNaN(ret.rec[1][GrowthHeader[g]])

\* The symbols whose call ended with a fault of the provider.
HardFaulted == {k \in 1..Len(log) : log[k].exc = "FetchError"}

\* The symbol loop of main is over.
LoopFinished == pc \in {"loop", "views", "done", "aborted"} /\ idx > Len(symbols)

\* The list read from the sheet holds no blank cell.
NoBlank == \A k \in 1..Len(symbols) : symbols[k] # BlankCell

\* C3: a fault of the provider for one symbol, at whichever access, never
\* aborts the run (stated for the symbol lists without a blank cell).
C3_HardFaultNeverAborts ==
    (NoBlank /\ HardFaulted # {}) => pc # "aborted"

\* C4: once the loop is over, the results hold one record per symbol except
\* those whose call ended with a fault of the provider (stated for the symbol
\* lists without a blank cell).
C4_ResultCount ==
    (NoBlank /\ LoopFinished) =>
        /\ Len(results) <= Len(symbols)
        /\ Len(results) = Len(symbols) - Cardinality(HardFaulted)

\* C5: with an empty price series both price-performance fields are
\* unavailable, no fault is raised and the record is returned.
C5_EmptyPriceSeries ==
    (Called /\ CallInput.fault = 0 /\ CallInput.history = <<>>) =>
        /\ ret.line = 0
        /\ Returned
        /\ IsNaN(ret.rec[1]["30 Day Price Performance"])
        /\ IsNaN(ret.rec[1]["1 Year Price Performance"])

\* C6: free cash flow is unavailable when operating cash flow or capital
\* expenditures is, and is their difference for every pair of present values,
\* zero included.
C6_FreeCashFlow ==
    Assigned("free_cash_flow") =>
        LET ocf == ItemAt(CallInput.cashflow, "Operating Cash Flow", 1)
            capex == ItemAt(CallInput.cashflow, "Capital Expenditures", 1)
        IN  ret.locals.free_cash_flow =
                IF IsNaN(ocf) \/ IsNaN(capex) THEN NaN
                ELSE Norm(ocf[1] * capex[2] - capex[1] * ocf[2], ocf[2] * capex[2])

\* The view is the first min(TopN, |rows|) rows of an ordering of rows that is
\* non-increasing in Revenue Growth, unavailable values last.
NonIncreasing(a, b) == IsNaN(b) \/ (~IsNaN(a) /\ ~FLess(a, b))

IsTopRevenueGrowth(v, rows) ==
    /\ Len(v) = (IF Len(rows) < TopN THEN Len(rows) ELSE TopN)
    /\ \A k \in 1..Len(v) : \E j \in 1..Len(rows) : v[k] = rows[j]
    /\ \A k \in 1..(Len(v) - 1) :
         NonIncreasing(v[k]["Revenue Growth"], v[k + 1]["Revenue Growth"])

\* C7: for every result set the loop can leave, the empty one included, main
\* and generate_pdf build the top-5 view by revenue growth.
C7_TopRevenueGrowthView ==
    LoopFinished =>
        /\ error # "KeyError"
        /\ pc \in {"views", "done"} => IsTopRevenueGrowth(view.top_revenue, results)
        /\ pc = "done" => IsTopRevenueGrowth(pdf.top_revenue, results)

\* The observation is at most 30 days old.
InWindow30(obs) == obs.age <= 30

\* The change in percent between the first and the last close of a window.
Change(w) ==
    IF w = <<>> THEN NaN
    ELSE LET first == w[1].close
             last == w[Len(w)].close
         IN  IF IsNaN(first) \/ IsNaN(last) THEN NaN
             ELSE Norm((last[1] * first[2] - first[1] * last[2]) * 100 * first[2],
                       first[2] * last[2] * first[1])

\* C8: the 30-day field is the change over the observations of the last 30
\* days, the 1-year field the change over the whole series, and they differ
\* when the two windows open at different closes.
C8_PriceWindows ==
    Returned =>
        LET w30 == SelectSeq(CallInput.history, InWindow30)
            p30 == ret.rec[1]["30 Day Price Performance"]
            p1y == ret.rec[1]["1 Year Price Performance"]
        IN  /\ p30 = Change(w30)
            /\ p1y = Change(CallInput.history)
            /\ (/\ w30 # <<>>
                /\ IsFinite(w30[1].close) /\ IsFinite(CallInput.history[1].close)
                /\ IsFinite(w30[Len(w30)].close)
                /\ w30[1].close # CallInput.history[1].close) => p30 # p1y

\* C9: no blank cell of the 'Symbol' column reaches the symbol list or
\* get_financial_data.
C9_NoBlankSymbol ==
    /\ \A k \in 1..Len(symbols) : symbols[k] # BlankCell
    /\ Called => call.symbol # BlankCell

\* (cur - prior) / prior * 100 for integer cur and prior # 0, as a fraction
IsGrowthOf(x, cur, prior) ==
    IF IsNaN(cur) THEN IsNaN(x)
    ELSE /\ IsFinite(x)
         /\ x[1] * prior[1] * cur[2] = (cur[1] * prior[2] - prior[1] * cur[2]) * 100 * x[2]

\* C10: for each growth figure whose line item is present, with exactly one
\* period its computation raises nothing and gives NaN whatever the value;
\* with two or more periods and a prior value that is present and not zero it
\* gives (most recent - prior) / prior * 100.  The returned record carries the
\* same values.
C10_Growth ==
    Called =>
        \A g \in DOMAIN GrowthOf :
            LET key == GrowthOf[g]
                s == CallInput.income.cols[key]
            IN  key \in DOMAIN CallInput.income.cols =>
                  /\ Len(s) = 1 =>
                       /\ ret.line # LineOf[g]
                       /\ Assigned(g) => IsNaN(ret.locals[g])
                       /\ (Returned /\ g \in DOMAIN GrowthHeader)
                             => IsNaN(ret.rec[1][GrowthHeader[g]])
                  /\ (Len(s) >= 2 /\ IsFinite(s[2]) /\ s[2] # Zero) =>
                       /\ ret.line # LineOf[g]
                       /\ Assigned(g) => IsGrowthOf(ret.locals[g], s[1], s[2])
                       /\ (Returned /\ g \in DOMAIN GrowthHeader)
                             => IsGrowthOf(ret.rec[1][GrowthHeader[g]], s[1], s[2])

\* A call on a statement of exactly one period, with a revenue that is
\* present and not zero, has returned a record whose revenue growth is NaN.
C10_Witness ==
    /\ Returned
    /\ DfLen(CallInput.income) = 1
    /\ "Total Revenue" \in DOMAIN CallInput.income.cols
    /\ CallInput.income.cols["Total Revenue"][1] = Num(2)
    /\ IsNaN(ret.locals.revenue_growth)
    /\ IsNaN(ret.rec[1]["Revenue Growth"])

====
